---- MODULE Spec2Model ----
(***************************************************************************)
(* Model of bempy.py: rigid-body kinematics (EuclideanTransformation,      *)
(* Body, TransformedBody, Pitching, Heaving) and the panel discretizer     *)
(* (BoundVortexPanels) with the time_advance driver step.                  *)
(*                                                                         *)
(* Numbers.  Angles are degrees and are kept to multiples of 90, so that   *)
(* cos and sin are exactly -1, 0 or 1 and a rotation matrix is an integer  *)
(* matrix.  The argument of the sinusoidal motions is kept to multiples of *)
(* a quarter period for the same reason: `frequency` counts quarter turns  *)
(* per unit of time and `phase` is in degrees as in the constructors.      *)
(* Boundary points lie on a grid of pitch 4, so that the quarter points of *)
(* an edge are integers.  A unit normal is kept as the pair of the rotated *)
(* edge and the squared edge length it is divided by.                      *)
(***************************************************************************)
EXTENDS Integers, Sequences, FiniteSets, TLC

\* ------------------------------------------------------------------------
\* Bounds of the model
\* ------------------------------------------------------------------------
MaxCoord == 1
MaxDepth == 2
MaxTime == 1
MaxPoints == 3

\* Python's None
None == [none |-> TRUE]

\* ------------------------------------------------------------------------
\* EuclideanTransformation
\* ------------------------------------------------------------------------

\* np.cos(value * np.pi / 180), value a multiple of 90
cos(value) ==
  CASE value % 360 = 0 -> 1
    [] value % 360 = 90 -> 0
    [] value % 360 = 180 -> -1
    [] value % 360 = 270 -> 0

\* np.sin(value * np.pi / 180), value a multiple of 90
sin(value) ==
  CASE value % 360 = 0 -> 0
    [] value % 360 = 90 -> 1
    [] value % 360 = 180 -> 0
    [] value % 360 = 270 -> -1

\* np.dot of a 2x2 matrix (a pair of rows) and a 2-vector
dot(M, v) ==
  << M[1][1] * v[1] + M[1][2] * v[2], M[2][1] * v[1] + M[2][2] * v[2] >>

\* ndarray.T of a 2x2 matrix
transpose(M) == << <<M[1][1], M[2][1]>>, <<M[1][2], M[2][2]>> >>

\* elementwise sum, negation and scaling of 2-vectors
vadd(u, v) == << u[1] + v[1], u[2] + v[2] >>
vneg(v) == << -v[1], -v[2] >>
vscale(k, v) == << k * v[1], k * v[2] >>

\* the matrix the angle setter stores in _R
RotationMatrix(value) ==
  << << cos(value), sin(value) >>, << -sin(value), cos(value) >> >>

\* angle.setter: stores the angle and re-derives _R from it
angle_setter(self, value) ==
  [self EXCEPT !._angle = value, !._R = RotationMatrix(value)]

\* displacement.setter
displacement_setter(self, value) == [self EXCEPT !._displacement = value]

\* __init__: both setters run
EuclideanTransformation(angle, displacement) ==
  [_angle |-> angle, _R |-> RotationMatrix(angle), _displacement |-> displacement]

\* inverse()
inverse_untransposed(self) ==
  EuclideanTransformation(-self._angle, vneg(dot(self._R, self._displacement)))

inverse(self) ==
  EuclideanTransformation(-self._angle,
                          vneg(dot(transpose(self._R), self._displacement)))

\* compose(other): self is the left (outer) factor
compose_rotated_by_other(self, other) ==
  IF other = None THEN self
  ELSE EuclideanTransformation(self._angle + other._angle,
         vadd(dot(other._R, other._displacement), self._displacement))

compose_swapped(self, other) ==
  IF other = None THEN self
  ELSE EuclideanTransformation(other._angle + self._angle,
         vadd(dot(other._R, self._displacement), other._displacement))

compose(self, other) ==
  IF other = None THEN self
  ELSE EuclideanTransformation(self._angle + other._angle,
         vadd(dot(self._R, other._displacement), self._displacement))

\* xform_position on one column of the point array
xform_position(self, vector) ==
  LET rotated == IF self._angle # 0 THEN dot(self._R, vector) ELSE vector
  IN  IF self._displacement # <<0, 0>> THEN vadd(rotated, self._displacement)
      ELSE rotated

\* ------------------------------------------------------------------------
\* State
\* ------------------------------------------------------------------------
VARIABLES
  decs,         \* the decorator objects, innermost first; object 0 is the root Body
  _time,        \* the _time attribute of the objects that have one
  points,       \* the root Body's boundary points (_x, _y), body frame
  last,         \* the latest get_transformation() call and what it returned
  lastTime,     \* the value of the latest write to time, 0 before any
  ta, tb, tc,   \* three transformations, operands of the algebra script
  apc,          \* position of the algebra script
  inv_out,      \* ta.inverse() and ta.compose(ta.inverse())
  left_out,     \* ta.compose(tb).compose(tc)
  right_out,    \* ta.compose(tb.compose(tc))
  ab_out,       \* ta.compose(tb)
  ba_out,       \* tb.compose(ta)
  bvp,          \* the BoundVortexPanels object, None before it is constructed
  bvp0,         \* the BoundVortexPanels object as its constructor left it
  geometry,     \* whether update_positions has run since the latest step ended
  strengths,    \* the geometry the latest step's update_strengths met
  lastCall      \* the latest call on the panel set

kvars == << decs, _time, points, last, lastTime >>
avars == << ta, tb, tc, apc, inv_out, left_out, right_out, ab_out, ba_out >>
pvars == << bvp, bvp0, geometry, strengths, lastCall >>
vars == << kvars, avars, pvars >>

\* ------------------------------------------------------------------------
\* Body, TransformedBody, Pitching, Heaving
\* ------------------------------------------------------------------------
Objects == 0 .. Len(decs)
Decorators == 1 .. Len(decs)

\* Body.get_body / TransformedBody.get_body
get_body(ds, o) == IF o = 0 THEN 0 ELSE ds[o]._body

\* Body.get_points / Circle.get_points / Airfoil.get_points
Body_get_points == points

\* TransformedBody.__init__
TransformedBody_init(ds, body, angle, displacement) ==
  [cls |-> "TransformedBody",
   _parent |-> body,
   _body |-> get_body(ds, body),
   _transformation |-> EuclideanTransformation(angle, displacement)]

\* Pitching.__init__ ; phase is kept in degrees
Pitching_init(ds, body, amplitude, frequency, phase) ==
  [cls |-> "Pitching",
   _parent |-> body,
   _body |-> get_body(ds, body),
   _transformation |-> EuclideanTransformation(0, <<0, 0>>),
   _amplitude |-> amplitude,
   _frequency |-> frequency,
   _phase |-> phase]

\* Heaving.__init__ ; phase is kept in degrees
Heaving_init(ds, body, displacement, frequency, phase) ==
  [cls |-> "Heaving",
   _parent |-> body,
   _body |-> get_body(ds, body),
   _transformation |-> EuclideanTransformation(0, <<0, 0>>),
   _displacement |-> displacement,
   _frequency |-> frequency,
   _phase |-> phase]

\* the object whose _time a read of o.time returns
time_getter_target(ds, o) == IF o = 0 THEN 0 ELSE ds[o]._body

\* the object whose _time a write of o.time assigns
time_setter_own(ds, o) == o

time_setter_target(ds, o) == IF o = 0 THEN 0 ELSE ds[o]._body

\* Body.time / TransformedBody.time, read
time_getter(ds, tm, o) == tm[time_getter_target(ds, o)]

\* Pitching.get_transformation: the angle assigned first
pitching_angle_accumulated(self, t) ==
  self._transformation._angle
    + self._amplitude * sin(90 * self._frequency * t + self._phase)

pitching_angle(self, t) ==
  self._amplitude * sin(90 * self._frequency * t + self._phase)

\* Heaving.get_transformation: the displacement assigned first
heaving_displacement(self, t) ==
  vscale(sin(90 * self._frequency * t + self._phase), self._displacement)

\* the assignment a decorator makes to itself before composing
own_motion(self, t) ==
  CASE self.cls = "Pitching" ->
         [self EXCEPT !._transformation = angle_setter(@, pitching_angle(self, t))]
    [] self.cls = "Heaving" ->
         [self EXCEPT !._transformation =
                        displacement_setter(@, heaving_displacement(self, t))]
    [] OTHER -> self

\* the decorators after o.get_transformation(): o and each ancestor has
\* made its own assignment
RECURSIVE refresh(_, _, _)
refresh(ds, o, t) ==
  IF o = 0 THEN ds
  ELSE refresh([ds EXCEPT ![o] = own_motion(ds[o], t)], ds[o]._parent, t)

\* A reference to a transformation object: the _transformation of decorator
\* `alias`, or (alias = 0) an object of its own holding `val`.
own_ref(o) == [alias |-> o, val |-> None]
new_ref(T) == [alias |-> 0, val |-> T]
deref(ds, r) == IF r.alias # 0 THEN ds[r.alias]._transformation ELSE r.val

\* compose on references: `return self` hands back the same object
compose_ref(ds, self, other) ==
  IF other = None THEN self
  ELSE new_ref(compose(deref(ds, self), deref(ds, other)))

\* what o.get_transformation() returns, the assignments made
RECURSIVE get_transformation(_, _)
get_transformation(ds, o) ==
  IF o = 0 THEN None
  ELSE compose_ref(ds, own_ref(o), get_transformation(ds, ds[o]._parent))

\* TransformedBody.get_points(body_frame): the decorators and the points
get_points(ds, tm, o, body_frame) ==
  IF o = 0 \/ body_frame THEN Body_get_points
  ELSE LET after == refresh(ds, o, time_getter(ds, tm, o))
           q == deref(after, get_transformation(after, o))
       IN  [i \in 1 .. Len(points) |-> xform_position(q, points[i])]

\* ------------------------------------------------------------------------
\* Operations on a chain of decorators
\* ------------------------------------------------------------------------
KinAngles == {0, 90}
KinDisplacements == {<<0, 0>>, <<1, 0>>}
Amplitudes == {90}
HeaveAmplitudes == {<<1, 0>>}
Frequencies == {1}
Phases == {0}
Times == 0 .. MaxTime

AlgIdle ==
  /\ ta = None /\ tb = None /\ tc = None /\ apc = "off"
  /\ inv_out = None /\ left_out = None /\ right_out = None
  /\ ab_out = None /\ ba_out = None

PanelIdle ==
  /\ bvp = None /\ bvp0 = None /\ geometry = "never"
  /\ strengths = "unsolved" /\ lastCall = "none"

Init ==
  /\ decs = << >>
  /\ _time = (0 :> 0)
  /\ points = << >>
  /\ last = None
  /\ lastTime = 0
  /\ AlgIdle
  /\ PanelIdle

Touch == IF last = None THEN last ELSE [last EXCEPT !.dirty = TRUE]

\* TransformedBody(body, angle, displacement) over the outermost object
NewTransformedBody(angle, displacement) ==
  /\ Len(decs) < MaxDepth
  /\ decs' = Append(decs, TransformedBody_init(decs, Len(decs), angle, displacement))
  /\ UNCHANGED << _time, points, last, lastTime, avars, pvars >>

\* Pitching(body, amplitude, frequency, phase) over the outermost object
NewPitching(amplitude, frequency, phase) ==
  /\ Len(decs) < MaxDepth
  /\ decs' = Append(decs, Pitching_init(decs, Len(decs), amplitude, frequency, phase))
  /\ UNCHANGED << _time, points, last, lastTime, avars, pvars >>

\* Heaving(body, displacement, frequency, phase) over the outermost object
NewHeaving(displacement, frequency, phase) ==
  /\ Len(decs) < MaxDepth
  /\ decs' = Append(decs, Heaving_init(decs, Len(decs), displacement, frequency, phase))
  /\ UNCHANGED << _time, points, last, lastTime, avars, pvars >>

\* o.time = value
SetTime(o, value) ==
  /\ _time' = (time_setter_target(decs, o) :> value) @@ _time
  /\ lastTime' = value
  /\ last' = Touch
  /\ UNCHANGED << decs, points, avars, pvars >>

\* o.angle = value
SetAngle(o, value) ==
  /\ decs' = [decs EXCEPT ![o]._transformation = angle_setter(@, value)]
  /\ last' = Touch
  /\ UNCHANGED << _time, points, lastTime, avars, pvars >>

\* o.displacement = value
SetDisplacement(o, value) ==
  /\ decs' = [decs EXCEPT ![o]._transformation = displacement_setter(@, value)]
  /\ last' = Touch
  /\ UNCHANGED << _time, points, lastTime, avars, pvars >>

\* o.get_transformation()
GetTransformation(o) ==
  LET after == refresh(decs, o, time_getter(decs, _time, o))
      r == get_transformation(after, o)
  IN  /\ decs' = after
      /\ last' = [obj |-> o, ref |-> r, val |-> deref(after, r), dirty |-> FALSE,
                  again |-> IF last = None THEN FALSE
                            ELSE last.obj = o /\ ~last.dirty]
      /\ UNCHANGED << _time, points, lastTime, avars, pvars >>

Next ==
  \/ \E a \in KinAngles, d \in KinDisplacements : NewTransformedBody(a, d)
  \/ \E a \in Amplitudes, f \in Frequencies, p \in Phases : NewPitching(a, f, p)
  \/ \E d \in HeaveAmplitudes, f \in Frequencies, p \in Phases : NewHeaving(d, f, p)
  \/ \E o \in Objects, v \in Times : SetTime(o, v)
  \/ \E o \in Decorators, a \in KinAngles : SetAngle(o, a)
  \/ \E o \in Decorators, d \in KinDisplacements : SetDisplacement(o, d)
  \/ \E o \in Decorators : GetTransformation(o)

Spec == Init /\ [][Next]_vars


\* ------------------------------------------------------------------------
\* Properties of a chain of decorators
\* ------------------------------------------------------------------------

\* C1: reading `time` from every decorator of a chain and from the root
\* returns one value, the last value written through any of them, and 0
\* before any write.
C1_SharedTime == \A o \in Objects : time_getter(decs, _time, o) = lastTime

\* a chain of two decorators or more after a write of a nonzero time
C1_Witness ==
  /\ Len(decs) >= 2
  /\ lastTime # 0
  /\ \A o \in Objects : time_getter(decs, _time, o) = lastTime

\* the sum of the own angles of decorator k and its ancestors
RECURSIVE AngleSum(_, _)
AngleSum(ds, k) ==
  IF k = 0 THEN 0
  ELSE ds[k]._transformation._angle + AngleSum(ds, ds[k]._parent)

\* R(Tk) * (accumulated displacement of the parent) + displacement(Tk)
RECURSIVE AccumulatedDisplacement(_, _)
AccumulatedDisplacement(ds, k) ==
  LET own == ds[k]._transformation
      c == cos(own._angle)
      s == sin(own._angle)
  IN  IF ds[k]._parent = 0 THEN own._displacement
      ELSE LET inner == AccumulatedDisplacement(ds, ds[k]._parent)
           IN  << c * inner[1] + s * inner[2] + own._displacement[1],
                  (-s) * inner[1] + c * inner[2] + own._displacement[2] >>

\* the accumulation with the parent's transformation as the outer factor
RECURSIVE SwappedAccumulation(_, _)
SwappedAccumulation(ds, k) ==
  IF ds[k]._parent = 0 THEN ds[k]._transformation
  ELSE compose(SwappedAccumulation(ds, ds[k]._parent), ds[k]._transformation)

\* C2: get_transformation() of the outermost of k decorators is its own
\* transformation composed, as the outer factor, with the accumulated
\* transformation of its parent: the angle is the sum of all the angles and
\* the displacement is R(Tk) * (the parent's accumulated displacement) +
\* displacement(Tk).
C2_ChainComposition ==
  (last # None /\ ~last.dirty) =>
    /\ last.val._angle = AngleSum(decs, last.obj)
    /\ last.val._displacement = AccumulatedDisplacement(decs, last.obj)

\* a chain of two decorators for which the swapped order gives another result
C2_Witness ==
  /\ last # None
  /\ ~last.dirty
  /\ last.obj >= 2
  /\ last.val._displacement # SwappedAccumulation(decs, last.obj)._displacement
  /\ last.val._displacement = AccumulatedDisplacement(decs, last.obj)

\* the motion of a Pitching or Heaving decorator at time t
MotionAt(d, t) ==
  CASE d.cls = "Pitching" ->
         d._transformation._angle = d._amplitude * sin(90 * d._frequency * t + d._phase)
    [] d.cls = "Heaving" ->
         d._transformation._displacement =
           vscale(sin(90 * d._frequency * t + d._phase), d._displacement)
    [] OTHER -> TRUE

\* right after a call, the decorator holds the motion of the time last written
C7_Current ==
  (last # None /\ ~last.dirty) => MotionAt(decs[last.obj], lastTime)

\* a second call with no write since the first returns what the first
\* returned and leaves the stored transformation as the first left it
C7_Repeat ==
  \A o \in Decorators :
    ( /\ last # None
      /\ last.obj = o
      /\ ~last.dirty
      /\ decs[o].cls \in {"Pitching", "Heaving"}
      /\ GetTransformation(o) )
    => ( /\ last'.val = last.val
         /\ decs'[o]._transformation = decs[o]._transformation )

\* C7: two consecutive get_transformation() calls on a Pitching or Heaving
\* decorator with no write in between return equal transformations and
\* leave the stored angle and displacement equal; a call made after a write
\* of the shared time returns the motion of the new time.
C7_IdempotentAndCurrent == [](C7_Current) /\ [][C7_Repeat]_vars

\* a repeated call on a Pitching decorator in motion
C7_Witness ==
  /\ last # None
  /\ last.again
  /\ ~last.dirty
  /\ decs[last.obj].cls = "Pitching"
  /\ lastTime # 0
  /\ decs[last.obj]._transformation._angle # 0

\* C10: the transformation get_transformation() returned keeps the angle
\* and displacement it had when it was returned, whatever is written to
\* the decorator or to the time afterwards, at every chain depth.
C10_Snapshot == last # None => deref(decs, last.ref) = last.val

\* ------------------------------------------------------------------------
\* The algebra script
\* ------------------------------------------------------------------------
Angles == {-90, 0, 90, 180, 270}
Coords == 0 .. MaxCoord
Displacements == Coords \X Coords
Transformations ==
  { EuclideanTransformation(a, d) : a \in Angles, d \in Displacements }

KinIdle ==
  /\ decs = << >> /\ _time = (0 :> 0) /\ points = << >>
  /\ last = None /\ lastTime = 0

AlgInit ==
  /\ ta \in Transformations
  /\ tb \in Transformations
  /\ tc \in Transformations
  /\ apc = "start"
  /\ inv_out = None
  /\ left_out = None
  /\ right_out = None
  /\ ab_out = None
  /\ ba_out = None
  /\ KinIdle
  /\ PanelIdle

\* T.compose(T.inverse())
ComposeWithInverse ==
  /\ apc = "start"
  /\ inv_out' = [inv |-> inverse(ta), prod |-> compose(ta, inverse(ta))]
  /\ apc' = "inverted"
  /\ UNCHANGED << ta, tb, tc, left_out, right_out, ab_out, ba_out, kvars, pvars >>

\* both groupings of a triple product
ComposeTriple ==
  /\ apc = "inverted"
  /\ left_out' = compose(compose(ta, tb), tc)
  /\ right_out' = compose(ta, compose(tb, tc))
  /\ apc' = "grouped"
  /\ UNCHANGED << ta, tb, tc, inv_out, ab_out, ba_out, kvars, pvars >>

\* both orders of a pair
ComposePair ==
  /\ apc = "grouped"
  /\ ab_out' = compose(ta, tb)
  /\ ba_out' = compose(tb, ta)
  /\ apc' = "done"
  /\ UNCHANGED << ta, tb, tc, inv_out, left_out, right_out, kvars, pvars >>

AlgNext == ComposeWithInverse \/ ComposeTriple \/ ComposePair

SpecAlgebra == AlgInit /\ [][AlgNext]_vars

\* ------------------------------------------------------------------------
\* Properties of the algebra
\* ------------------------------------------------------------------------

\* C3: T.compose(T.inverse()) has angle 0 and displacement (0, 0), and
\* inverse() negates the angle and sets the displacement to -R^T * d with
\* R = [[cos, sin], [-sin, cos]].
C3_InverseIsIdentity ==
  inv_out # None =>
    LET c == cos(ta._angle)
        s == sin(ta._angle)
        d == ta._displacement
    IN  /\ inv_out.prod._angle = 0
        /\ inv_out.prod._displacement = <<0, 0>>
        /\ inv_out.inv._angle = -ta._angle
        /\ inv_out.inv._displacement =
             << -(c * d[1] - s * d[2]), -(s * d[1] + c * d[2]) >>

\* a transformation that turns and moves, composed with its inverse
C3_Witness ==
  /\ inv_out # None
  /\ ta._angle = 90
  /\ ta._displacement[1] # 0
  /\ ta._displacement[2] # 0
  /\ inv_out.inv._displacement # vneg(ta._displacement)

\* C4: compose is associative: A.compose(B).compose(C) equals
\* A.compose(B.compose(C)) in angle and displacement.
C4_Associative ==
  left_out # None =>
    /\ left_out._angle = right_out._angle
    /\ left_out._displacement = right_out._displacement

\* compose is not commutative: A and B with nonzero distinct angles and
\* nonzero distinct displacements for which A.compose(B) differs from
\* B.compose(A), after a triple with a turning, moving third operand
C4_Witness ==
  /\ ab_out # None
  /\ ta._angle # 0 /\ tb._angle # 0 /\ ta._angle # tb._angle
  /\ ta._displacement # <<0, 0>> /\ tb._displacement # <<0, 0>>
  /\ ta._displacement # tb._displacement
  /\ tc._angle # 0 /\ tc._displacement # <<0, 0>>
  /\ ab_out._angle = ba_out._angle
  /\ ab_out._displacement # ba_out._displacement
  /\ left_out = right_out

\* ------------------------------------------------------------------------
\* BoundVortexPanels and time_advance
\* ------------------------------------------------------------------------

\* np.diff of the point array: one edge per pair of successive points
diff(q) ==
  [i \in 1 .. (IF Len(q) = 0 THEN 0 ELSE Len(q) - 1) |->
     << q[i + 1][1] - q[i][1], q[i + 1][2] - q[i][2] >>]

\* one column of vstack([dq[1,:], -dq[0,:]]) / norm(dq, axis=0): the rotated
\* edge and the square of the length it is divided by
normal(e) == [num |-> << e[2], -e[1] >>, den2 |-> e[1] * e[1] + e[2] * e[2]]

\* q[:,:-1] + 0.25 * dq and q[:,:-1] + 0.75 * dq, one column
quarter(p, e) == << p[1] + e[1] \div 4, p[2] + e[2] \div 4 >>
three_quarter(p, e) == << p[1] + (3 * e[1]) \div 4, p[2] + (3 * e[2]) \div 4 >>

\* half = self._numpanels / 2, an integer division
half_rounded_up(numpanels) == (numpanels + 1) \div 2

half_index(numpanels) == numpanels \div 2

\* BoundVortexPanels.__init__
BoundVortexPanels_init(body, q) ==
  LET dq == diff(q)
      numpanels == Len(dq)
      q25 == [i \in 1 .. numpanels |-> quarter(q[i], dq[i])]
      q75 == [i \in 1 .. numpanels |-> three_quarter(q[i], dq[i])]
      half == half_index(numpanels)
  IN  [_body |-> body,
       _numpanels |-> numpanels,
       _normals |-> [i \in 1 .. numpanels |-> normal(dq[i])],
       _xvort |-> [i \in 1 .. numpanels |-> IF i <= half THEN q75[i] ELSE q25[i]],
       _xcoll |-> [i \in 1 .. numpanels |-> IF i <= half THEN q25[i] ELSE q75[i]],
       _gam |-> [i \in 1 .. numpanels |-> 0],
       panels |-> None]

\* BoundVortexPanels.update_positions, given what get_points() returned
update_positions_rebuilding(self, pts) ==
  [BoundVortexPanels_init(self._body, pts) EXCEPT !.panels = pts]

update_positions(self, pts) == [self EXCEPT !.panels = pts]

\* BoundVortexPanels.update_strengths
update_strengths(self) == self

\* BoundVortexPanels.get_wake_panels
get_wake_panels(self) == None

\* the bodies a panel set is built from: a root Body alone, or under one
\* decorator
PanelCoords == {0, 4}
PanelPoints == PanelCoords \X PanelCoords
PointSequences == UNION { [1 .. n -> PanelPoints] : n \in 0 .. MaxPoints }
PanelBodies ==
  { << >>,
    << Pitching_init(<< >>, 0, 90, 1, 0) >>,
    << TransformedBody_init(<< >>, 0, 0, <<4, 0>>) >> }

PanelInit ==
  /\ decs \in PanelBodies
  /\ _time = (0 :> 0)
  /\ points \in PointSequences
  /\ last = None
  /\ lastTime = 0
  /\ AlgIdle
  /\ PanelIdle

\* BoundVortexPanels(body), body the outermost object
Construct ==
  /\ bvp = None
  /\ bvp' = BoundVortexPanels_init(Len(decs), get_points(decs, _time, Len(decs), TRUE))
  /\ bvp0' = bvp'
  /\ lastCall' = "init"
  /\ UNCHANGED << kvars, avars, geometry, strengths >>

\* update_positions(): get_points() makes the decorators assign their motion
UpdatePositions ==
  /\ bvp # None
  /\ bvp' = update_positions(bvp, get_points(decs, _time, bvp._body, FALSE))
  /\ decs' = refresh(decs, bvp._body, time_getter(decs, _time, bvp._body))
  /\ geometry' = "current"
  /\ lastCall' = "update_positions"
  /\ UNCHANGED << _time, points, last, lastTime, avars, bvp0, strengths >>

\* update_strengths(wake, Uinfty, dt) called on its own
UpdateStrengths ==
  /\ bvp # None
  /\ bvp' = update_strengths(bvp)
  /\ lastCall' = "update_strengths"
  /\ UNCHANGED << kvars, avars, bvp0, geometry, strengths >>

\* get_wake_panels() called on its own
GetWakePanels ==
  /\ bvp # None
  /\ get_wake_panels(bvp) = None
  /\ lastCall' = "get_wake_panels"
  /\ UNCHANGED << kvars, avars, bvp, bvp0, geometry, strengths >>

\* time_advance(body, wake, Uinfty, dt): update_strengths, wake.update,
\* get_wake_panels, wake.add_panels; the wake (FreeVortexParticles) keeps no
\* state.  The step ends here, and the geometry is the past step's from now.
time_advance ==
  /\ bvp # None
  /\ bvp' = update_strengths(bvp)
  /\ strengths' = geometry
  /\ get_wake_panels(bvp') = None
  /\ geometry' = IF geometry = "never" THEN "never" ELSE "earlier"
  /\ lastCall' = "time_advance"
  /\ UNCHANGED << kvars, avars, bvp0 >>

PanelNext ==
  \/ Construct
  \/ UpdatePositions
  \/ UpdateStrengths
  \/ GetWakePanels
  \/ time_advance
  \/ \E o \in Objects, v \in Times : SetTime(o, v)

SpecPanels == PanelInit /\ [][PanelNext]_vars

\* ------------------------------------------------------------------------
\* Properties of the panel set
\* ------------------------------------------------------------------------

\* the point at k quarters of the edge from p to q
AtQuarters(k, p, q) ==
  << ((4 - k) * p[1] + k * q[1]) \div 4, ((4 - k) * p[2] + k * q[2]) \div 4 >>

\* the split of the claim as written: the singularity point at 1/4 and the
\* collocation point at 3/4 of the edge in the front half, the reverse in
\* the back half
C5_FrontQuarterAsClaimed ==
  (bvp # None /\ Len(points) >= 2) =>
    /\ bvp._numpanels = Len(points) - 1
    /\ \A i \in 1 .. bvp._numpanels :
         LET front == (i - 1) < (Len(points) - 1) \div 2
         IN  /\ bvp._xvort[i] =
                  AtQuarters(IF front THEN 1 ELSE 3, points[i], points[i + 1])
             /\ bvp._xcoll[i] =
                  AtQuarters(IF front THEN 3 ELSE 1, points[i], points[i + 1])

\* C5: a contour of N >= 2 points gives N-1 panels, split at index
\* half = floor((N-1)/2): a panel with index < half has its singularity
\* point at 3/4 of the edge from the panel's start point and its collocation
\* point at 1/4, and a panel with index >= half has its singularity point at
\* 1/4 and its collocation point at 3/4.
C5_HalfSplit ==
  (bvp # None /\ Len(points) >= 2) =>
    /\ bvp._numpanels = Len(points) - 1
    /\ \A i \in 1 .. bvp._numpanels :
         LET front == (i - 1) < (Len(points) - 1) \div 2
         IN  /\ bvp._xvort[i] =
                  AtQuarters(IF front THEN 3 ELSE 1, points[i], points[i + 1])
             /\ bvp._xcoll[i] =
                  AtQuarters(IF front THEN 1 ELSE 3, points[i], points[i + 1])

\* a contour of three distinct points: one panel in each half
C5_Witness ==
  /\ bvp # None
  /\ Len(points) = 3
  /\ points[1] # points[2]
  /\ points[2] # points[3]
  /\ bvp._xvort[1] = AtQuarters(3, points[1], points[2])
  /\ bvp._xvort[2] = AtQuarters(1, points[2], points[3])

\* the error outcome the constructor is to end in
InsufficientGeometryError == [error |-> "InsufficientGeometryError"]

\* C6: constructing a BoundVortexPanels from a body with fewer than 2
\* boundary points ends in InsufficientGeometryError and yields no panel
\* set, in particular none with 0 panels.
C6_TooFewPointsRaises ==
  (lastCall # "none" /\ Len(points) < 2) => bvp = InsufficientGeometryError

\* C8: in every step time_advance executes, update_strengths runs only
\* after update_positions has run on the panel set for that step.
\* Stated for a panel set that has panels.
C8_PositionsBeforeStrengths ==
  (bvp # None /\ Len(points) >= 2) => strengths \in {"unsolved", "current"}

====
